---- MODULE Spec2Model ----
(***************************************************************************)
(* Pagination of one PDF export of the pdf-export plugin (src/src/main.ts): *)
(* createPDFFromHTML chooses a segmenter, createSmartPageSegments walks the *)
(* canvas with the page-break markers, and the page loop hands one image    *)
(* per segment to jsPDF.  Pixel values are integers.                        *)
(***************************************************************************)
EXTENDS Integers, Sequences, FiniteSets, TLC

\* ------------------------------------------------------------------ bounds
MaxTotal == 5
MaxPage == 3
MaxPos == 6
MaxMarkers == 2
WideMargin == 105
MaxWidth == 2

\* DEFAULT_SETTINGS.pdfMargin
DefaultMargin == 10

\* ------------------------------------------------------------------ helpers
Min(a, b) == IF a < b THEN a ELSE b

SeqsUpTo(n, S) == UNION {[1..k -> S] : k \in 0..n}

Heights(segs) == [k \in 1..Len(segs) |-> segs[k].height]

\* the page formats in millimetres (formats of calculateContentWidth)
Formats == [a4 |-> [width |-> 210, height |-> 297],
            letter |-> [width |-> 216, height |-> 279]]

PageSizes == {"a4", "letter"}

\* calculateContentWidth before the conversion to pixels: contentWidthMM
ContentWidthMM(pageSize, margin) == Formats[pageSize].width - (2 * margin)

\* the printable height in millimetres, as the page loop computes it
ContentAreaHeightMM(pageSize, margin) == Formats[pageSize].height - (2 * margin)

\* Geometry Resolver precondition: the margin leaves a positive content area
ContentAreaPositive(pageSize, margin) ==
    /\ ContentWidthMM(pageSize, margin) > 0
    /\ ContentAreaHeightMM(pageSize, margin) > 0

\* ------------------------------------------------------------------ state
VARIABLES
    treatHorizontalRuleAsPageBreak, \* settings
    pdfMargin,                      \* settings
    pageSize,                       \* settings
    canvasHeight,                   \* canvas.height of the rasterized note
    canvasWidth,                    \* canvas.width of the rasterized note
    markerPositions,                \* positions of the markers found, in DOM order
    contentHeight,                  \* pageManager.getPageInfo().contentHeight
    pc,                             \* position in createPDFFromHTML
    segmenter,                      \* "none", "smart" or "uniform"
    segments,                       \* ContentSegment[]
    currentY,                       \* cursor of createSmartPageSegments
    markerIndex,                    \* marker index of createSmartPageSegments
    pdfPages,                       \* number of pages of the jsPDF document
    pdfCalls,                       \* addPage / addImage calls made on the document
    pageIndex,                      \* i of the page loop
    placements,                     \* x, y, width, height of each addImage, in mm
    pdfPageList,                    \* orientation and format of each page of the document
    error,                          \* what the run threw, "none" if nothing
    markersHidden,                  \* the markers have style.display = 'none'
    rasterizedWith,                 \* the markers as html2canvas drew them
    containerAttached,              \* the render container is a child of document.body
    segmentPageManager,             \* the page manager the segments were made with
    pdfPageManager,                 \* the page manager the document was made with
    savedFile,                      \* the file written to the export folder
    lastExportedPDF,                \* this.lastExportedPDF
    lines,                          \* content.split('\n') of preprocessMarkdownForPageBreaks
    lineIndex,                      \* i of its loop
    inCodeBlock,                    \* its inCodeBlock
    inQuoteBlock,                   \* its inQuoteBlock
    processedLines,                 \* its processedLines
    prePc,                          \* position in preprocessMarkdownForPageBreaks
    canvasScale,                    \* settings
    savedSettings                   \* what saveData last wrote

inputs == <<treatHorizontalRuleAsPageBreak, pdfMargin, pageSize, canvasHeight,
            canvasWidth, markerPositions, contentHeight>>
loopVars == <<currentY, markerIndex>>
pdfVars == <<pdfPages, pdfCalls, pageIndex, placements, pdfPageList>>
domVars == <<markersHidden, rasterizedWith, containerAttached>>
managerVars == <<segmentPageManager, pdfPageManager>>
fileVars == <<savedFile, lastExportedPDF>>
preVars == <<lines, lineIndex, inCodeBlock, inQuoteBlock, processedLines, prePc>>
tabVars == <<canvasScale, savedSettings>>
exportVars == <<inputs, pc, segmenter, segments, loopVars, pdfVars, error, domVars,
                managerVars, fileVars, tabVars>>
vars == <<exportVars, preVars>>

\* pageHeight of createSmartPageSegments
pageHeight == contentHeight

\* ------------------------------------------------------------------ inputs
\* the worked examples of the segmenters: 1000 px of content, 300 px per page
ExampleInputs ==
    {[total |-> 1000, page |-> 300, markers |-> ms] :
        ms \in {<<>>, <<250>>, <<500>>, <<950>>}}

\* a short note that calls for a landscape page: the bitmap is as wide as an a4
\* content area at 10 mm margins, the page as high as the bitmap is wide, and a
\* marker leaves a short last segment
LandscapeInputs ==
    {[total |-> 70, page |-> 80, markers |-> <<60>>, width |-> 80]}

SmallInputs ==
    {[total |-> t, page |-> p, markers |-> ms] :
        t \in 0..MaxTotal, p \in 1..MaxPage, ms \in SeqsUpTo(MaxMarkers, 0..MaxPos)}

\* what a page manager built on a non-positive content area may report
DegenerateInputs ==
    {[total |-> t, page |-> p, markers |-> ms] :
        t \in 0..MaxTotal, p \in {-1, 0}, ms \in SeqsUpTo(MaxMarkers, 0..MaxPos)}

Margins == {DefaultMargin, WideMargin}

\* the canvases, markers and page heights a run may meet under the given settings
Runs(size, margin) ==
    ExampleInputs \cup SmallInputs \cup
        (IF ContentAreaPositive(size, margin) THEN {} ELSE DegenerateInputs)

\* the page heights Runs(size, margin) holds for a canvas of the given height
PageHeights(size, margin, total) ==
    {e.page : e \in {x \in ExampleInputs : x.total = total}} \cup
    {e.page : e \in {x \in LandscapeInputs : x.total = total}} \cup
        (IF total \in 0..MaxTotal
         THEN (1..MaxPage) \cup
                  (IF ContentAreaPositive(size, margin) THEN {} ELSE {-1, 0})
         ELSE {})

\* ------------------------------------------------------------------ PageManager
\* PageManager.splitContent: full pages, the last one clamped to what remains
RECURSIVE SplitFrom(_, _, _, _)
SplitFrom(y, n, total, page) ==
    IF y >= total \/ page <= 0
    THEN <<>>
    ELSE <<[y |-> y, height |-> Min(page, total - y), pageNumber |-> n]>>
         \o SplitFrom(y + Min(page, total - y), n + 1, total, page)

\* every page full, the last one not clamped to what remains
splitContent_NoClamp(total, page) ==
    [k \in 1..(IF page <= 0 \/ total <= 0 THEN 0 ELSE (total + page - 1) \div page) |->
        [y |-> (k - 1) * page, height |-> page, pageNumber |-> k - 1]]

splitContent(total, page) == SplitFrom(0, 0, total, page)

\* ------------------------------------------------------------------ createSmartPageSegments
\* const distanceToMarker = nextMarkerPos - currentY
DistanceToMarker(nextMarkerPos, y) == nextMarkerPos - y

\* any marker ahead of the cursor is taken for a break, however far
MarkerWithinPage_AnyAhead(distance, page) == distance > 0

\* if (distanceToMarker > 0 && distanceToMarker < pageHeight)
MarkerWithinPage(distance, page) == distance > 0 /\ distance < page

\* only a marker strictly before the cursor counts as passed
MarkerPassed_Strict(distance) == distance < 0

\* else if (distanceToMarker <= 0)
MarkerPassed(distance) == distance <= 0

\* the marker's position taken for its distance from the cursor
MarkerSegmentHeight_Absolute(nextMarkerPos, y) == nextMarkerPos

\* segmentHeight = distanceToMarker, when breaking at the marker
MarkerSegmentHeight(nextMarkerPos, y) == DistanceToMarker(nextMarkerPos, y)

\* a full page even when less content remains
FullPageHeight_Unclamped(page, total, y) == page

\* all that remains even when it is more than a page
FullPageHeight_Remaining(page, total, y) == total - y

\* segmentHeight = Math.min(pageHeight, canvasHeight - currentY)
FullPageHeight(page, total, y) == Min(page, total - y)

\* the page number taken after the push: one-based
PushSegment_OneBased(segs, y, height) ==
    Append(segs, [y |-> y, height |-> height, pageNumber |-> Len(segs) + 1])

\* segments.push({ y: currentY, height: segmentHeight, pageNumber: segments.length })
PushSegment(segs, y, height) ==
    Append(segs, [y |-> y, height |-> height, pageNumber |-> Len(segs)])

\* a computed height is pushed whatever its sign
StopsLoop_Never(segmentHeight) == FALSE

\* if (segmentHeight <= 0) break
StopsLoop(segmentHeight) == segmentHeight <= 0

HasMarker == markerIndex < Len(markerPositions)
nextMarkerPos == markerPositions[markerIndex + 1]
distanceToMarker == DistanceToMarker(nextMarkerPos, currentY)

\* ------------------------------------------------------------------ createPDFFromHTML
\* the setting is not consulted
UseSmartBreaking_AnyMarker(enabled, nMarkers) == nMarkers > 0

\* if (this.settings.treatHorizontalRuleAsPageBreak && pageBreakMarkers.length > 0)
UseSmartBreaking(enabled, nMarkers) == enabled /\ nMarkers > 0

\* a new page also before the first segment
NeedsNewPage_Always(i) == i >= 0

\* if (i > 0) pdf.addPage()
NeedsNewPage(i) == i > 0

Call(op, i) ==
    [op |-> op, page |-> i, y |-> segments[i + 1].y, height |-> segments[i + 1].height]

Abs(a) == IF a < 0 THEN -a ELSE a

\* PageManager.getIsLandscape: landscape when the canvas aspect ratio w / h is
\* strictly closer to the landscape page's ratio than to the portrait page's
\* (both sides multiplied by h * width * height of the format)
getIsLandscape(w, h, size) ==
    LET fw == Formats[size].width
        fh == Formats[size].height
    IN  /\ h > 0
        /\ Abs(w * fw * fh - fh * fh * h) < Abs(w * fw * fh - fw * fw * h)

\* PageManager.getFormat / getJSPDFDimensions: the format in the chosen
\* orientation, width and height swapped for landscape
getFormat(size, landscape) ==
    IF landscape
    THEN [width |-> Formats[size].height, height |-> Formats[size].width]
    ELSE Formats[size]

\* orientation: isLandscape ? 'landscape' : 'portrait'
OrientationName(landscape) == IF landscape THEN "landscape" ELSE "portrait"

\* a page added by pdf.addPage() without arguments, made for a segment of the
\* canvas: it takes the orientation and format of the document
\* every added page would take the orientation that fits its own segment
NewPage_PerSegment(doc, w, h, size) ==
    [orientation |-> OrientationName(getIsLandscape(w, h, size)),
     format |-> getFormat(size, getIsLandscape(w, h, size))]

NewPage(doc, w, h, size) == doc

\* millimetre values are fractions n / d with d > 0
Frac(n, d) == [n |-> n, d |-> d]

\* const canvasAspectRatio = canvasWidth / segment.height
CanvasAspectRatio(w, h) == Frac(w, h)

\* let segmentWidthMM = contentAreaHeightMM * canvasAspectRatio
FitByHeightWidth(areaHeight, ar) == Frac(areaHeight * ar.n, ar.d)

\* the width fitted to the page height is kept however wide
TooWide_Never(width, areaWidth) == FALSE

\* if (segmentWidthMM > contentAreaWidthMM)
TooWide(width, areaWidth) == width.n > areaWidth * width.d

\* the fallback multiplies by the aspect ratio instead of dividing by it
FitByWidthHeight_Times(areaWidth, ar) == Frac(areaWidth * ar.n, ar.d)

\* segmentHeightMM = contentAreaWidthMM / canvasAspectRatio
FitByWidthHeight(areaWidth, ar) == Frac(areaWidth * ar.d, ar.n)

\* the image is put at the left margin, not centred
XOffset_LeftAligned(margin, areaWidth, width) == Frac(margin, 1)

\* const xOffset = this.settings.pdfMargin + (contentAreaWidthMM - segmentWidthMM) / 2
XOffset(margin, areaWidth, width) ==
    Frac(2 * margin * width.d + areaWidth * width.d - width.n, 2 * width.d)

\* the arguments of pdf.addImage for a segment of height h of a canvas of width w
ComposeSegment(w, h, format, margin) ==
    LET contentAreaWidthMM == format.width - (2 * margin)
        contentAreaHeightMM == format.height - (2 * margin)
        ar == CanvasAspectRatio(w, h)
        byHeight == FitByHeightWidth(contentAreaHeightMM, ar)
        segmentWidthMM == IF TooWide(byHeight, contentAreaWidthMM)
                          THEN Frac(contentAreaWidthMM, 1)
                          ELSE byHeight
        segmentHeightMM == IF TooWide(byHeight, contentAreaWidthMM)
                           THEN FitByWidthHeight(contentAreaWidthMM, ar)
                           ELSE Frac(contentAreaHeightMM, 1)
    IN  [x |-> XOffset(margin, contentAreaWidthMM, segmentWidthMM),
         y |-> Frac(margin, 1),
         width |-> segmentWidthMM,
         height |-> segmentHeightMM]

\* new PageManager(canvasWidth, canvasHeight, pageSize, pdfMargin, canvasScale):
\* what it was constructed from and the page height it resolves
PageManager(w, h, size, margin) ==
    [canvasWidth |-> w, canvasHeight |-> h, pageSize |-> size, pdfMargin |-> margin,
     contentHeight |-> contentHeight]

NoPageManager == [pageSize |-> "none"]

\* a handler of the settings tab would run at any moment of the export
SettingsTabCanRun_Anytime(at) == TRUE

\* a handler of the settings tab runs only while the export is suspended in an
\* await; from html2canvas' return to the end of createPDFFromHTML there is none
SettingsTabCanRun(at) == at = "raster"

\* nothing written
NoFile == [pages |-> 0, images |-> 0]

\* pdf.output('blob'): the pages of the document and the images placed on them
Output(pages, images) == [pages |-> pages, images |-> images]

\* a throw that would be swallowed where it happens, the run going on
Throw_Swallowed(at) == at

\* a throw inside exportToPDF's try block: control leaves for the catch clause,
\* which only reports the error
Throw(at) == "failed"

\* ------------------------------------------------------------------ preprocessing
\* lines are sequences of characters
Dashes == <<"-", "-", "-">>
Underscores == <<"_", "_", "_">>
Backtick == "backtick"
Fence == <<Backtick, Backtick, Backtick>>
QuoteSign == <<">">>

\* the page break marker div pushed in place of the line, as one token
PageBreakMarker == <<"<div class=pdf-page-break data-page-break=true></div>">>

\* the lines a note is made of here: both rules, bare and surrounded by blanks,
\* a fence, bare and with a language, a quote, an empty line and a line of text
NoteLines ==
    {Dashes, <<" ", "-", "-", "-", " ">>, Underscores, <<" ", "_", "_", "_">>,
     Fence, <<Backtick, Backtick, Backtick, "j", "s">>, <<">", "a">>, <<>>, <<"a">>}

RECURSIVE TrimStart(_)
TrimStart(line) ==
    IF line # <<>> /\ Head(line) = " " THEN TrimStart(Tail(line)) ELSE line

RECURSIVE TrimEnd(_)
TrimEnd(line) ==
    IF line # <<>> /\ line[Len(line)] = " "
    THEN TrimEnd(SubSeq(line, 1, Len(line) - 1))
    ELSE line

\* line.trim()
Trim(line) == TrimEnd(TrimStart(line))

\* trimmed.startsWith(prefix)
StartsWith(text, prefix) ==
    Len(text) >= Len(prefix) /\ SubSeq(text, 1, Len(prefix)) = prefix

\* a quote block, once entered, is never left
QuoteBlockAfter_Sticky(inQuote, trimmed, isLast, nextTrimmed) ==
    StartsWith(trimmed, QuoteSign) \/ inQuote

\* inQuoteBlock after the quote tracking of one line
QuoteBlockAfter(inQuote, trimmed, isLast, nextTrimmed) ==
    IF StartsWith(trimmed, QuoteSign) THEN TRUE
    ELSE IF inQuote /\ trimmed = <<>>
         THEN (IF isLast \/ ~StartsWith(nextTrimmed, QuoteSign) THEN FALSE ELSE inQuote)
    ELSE IF inQuote /\ ~StartsWith(trimmed, QuoteSign) THEN FALSE
    ELSE inQuote

\* a rule is replaced inside a code block too
IsPageBreakLine_InCodeToo(inCode, inQuote, trimmed) ==
    ~inQuote /\ trimmed = Dashes

\* !inCodeBlock && !inQuoteBlock && trimmed === '---'
IsPageBreakLine(inCode, inQuote, trimmed) ==
    ~inCode /\ ~inQuote /\ trimmed = Dashes

\* the preprocessing is not running
PreprocessIdle ==
    /\ lines = <<>>
    /\ lineIndex = 0
    /\ inCodeBlock = FALSE
    /\ inQuoteBlock = FALSE
    /\ processedLines = <<>>
    /\ prePc = "returned"

\* ------------------------------------------------------------------ settings tab
DigitChars == <<"0", "1", "2", "3", "4", "5", "6", "7", "8", "9">>

IsDigit(c) == \E d \in 1..10 : DigitChars[d] = c

DigitValue(c) == (CHOOSE d \in 1..10 : DigitChars[d] = c) - 1

\* String(n) for an integer n >= 0
RECURSIVE ToText(_)
ToText(n) ==
    IF n < 10
    THEN <<DigitChars[n + 1]>>
    ELSE Append(ToText(n \div 10), DigitChars[(n % 10) + 1])

\* the longest run of digits a text begins with
RECURSIVE DigitsPrefix(_)
DigitsPrefix(text) ==
    IF text # <<>> /\ IsDigit(Head(text))
    THEN <<Head(text)>> \o DigitsPrefix(Tail(text))
    ELSE <<>>

\* the number a run of digits writes
RECURSIVE DigitsValue(_)
DigitsValue(digits) ==
    IF digits = <<>>
    THEN 0
    ELSE DigitsValue(SubSeq(digits, 1, Len(digits) - 1)) * 10
            + DigitValue(digits[Len(digits)])

RECURSIVE PowerOfTen(_)
PowerOfTen(k) == IF k = 0 THEN 1 ELSE 10 * PowerOfTen(k - 1)

\* a text without its sign, and whether the sign was a minus
Unsigned(text) == IF text # <<>> /\ Head(text) \in {"-", "+"} THEN Tail(text) ELSE text
Negative(text) == text # <<>> /\ Head(text) = "-"

\* parseInt(value): leading blanks skipped, a sign, then digits up to the first
\* other character; NaN when there is no digit
ParseInt(text) ==
    LET t == TrimStart(text)
        digits == DigitsPrefix(Unsigned(t))
    IN  IF digits = <<>>
        THEN [nan |-> TRUE, value |-> 0]
        ELSE [nan |-> FALSE,
              value |-> IF Negative(t) THEN -DigitsValue(digits) ELSE DigitsValue(digits)]

\* parseFloat(value) on decimal notation: leading blanks skipped, a sign, digits,
\* a point and more digits; the number as n / d, NaN when there is no digit
ParseFloat(text) ==
    LET t == TrimStart(text)
        whole == DigitsPrefix(Unsigned(t))
        rest == SubSeq(Unsigned(t), Len(whole) + 1, Len(Unsigned(t)))
        fraction == IF rest # <<>> /\ Head(rest) = "."
                    THEN DigitsPrefix(Tail(rest))
                    ELSE <<>>
        n == DigitsValue(whole \o fraction)
    IN  IF whole = <<>> /\ fraction = <<>>
        THEN [nan |-> TRUE, n |-> 0, d |-> 1]
        ELSE [nan |-> FALSE, n |-> IF Negative(t) THEN -n ELSE n,
              d |-> PowerOfTen(Len(fraction))]

MaxScale == 4

\* any number is kept as the margin
MarginAccepted_AnyNumber(num) == ~num.nan

\* !isNaN(num) && num >= 0
MarginAccepted(num) == ~num.nan /\ num.value >= 0

\* !isNaN(num) && num > 0 && num <= 4
ScaleAccepted(num) == ~num.nan /\ num.n > 0 /\ num.n <= MaxScale * num.d

\* what is typed in the margin field: the margins of the runs, 10 with a blank
\* before it and with a unit after it, and texts that are refused
MarginTexts ==
    {ToText(m) : m \in Margins} \cup
        {<<"0">>, <<" ", "1", "0">>, <<"1", "0", "p", "x">>, <<"-", "5">>,
         <<"a", "b", "c">>, <<>>}

\* what is typed in the scale field
ScaleTexts ==
    {<<"1">>, <<"0", ".", "5">>, <<"2", ".", "5">>, <<"4">>, <<"0">>,
     <<"4", ".", "5">>, <<"-", "1">>, <<"a", "b", "c">>, <<>>}

\* the settings object handed to saveData
Settings(size, margin, scale, treat) ==
    [pageSize |-> size, pdfMargin |-> margin, canvasScale |-> scale,
     treatHorizontalRuleAsPageBreak |-> treat]

\* no data.json yet
NoData == [pageSize |-> "none"]

\* canvasScale: 1 of DEFAULT_SETTINGS
DefaultScale == Frac(1, 1)

\* the settings in force are the ones last saved; the scale is the default
SettingsLoaded ==
    /\ canvasScale = DefaultScale
    /\ savedSettings = Settings(pageSize, pdfMargin, canvasScale,
                                treatHorizontalRuleAsPageBreak)

\* ------------------------------------------------------------------ Init
Init ==
    /\ treatHorizontalRuleAsPageBreak \in BOOLEAN
    /\ pdfMargin \in Margins
    /\ pageSize \in PageSizes
    /\ \/ /\ \E inp \in Runs(pageSize, pdfMargin) :
                /\ canvasHeight = inp.total
                /\ contentHeight = inp.page
                /\ markerPositions = inp.markers
          /\ canvasWidth \in 1..MaxWidth
       \/ \E inp \in LandscapeInputs :
             /\ canvasHeight = inp.total
             /\ contentHeight = inp.page
             /\ markerPositions = inp.markers
             /\ canvasWidth = inp.width
    /\ pc = "raster"
    /\ segmenter = "none"
    /\ segments = <<>>
    /\ currentY = 0
    /\ markerIndex = 0
    /\ pdfPages = 0
    /\ pdfCalls = <<>>
    /\ pageIndex = 0
    /\ placements = <<>>
    /\ pdfPageList = <<>>
    /\ error = "none"
    /\ markersHidden = FALSE
    /\ rasterizedWith = "none"
    /\ containerAttached = TRUE
    /\ segmentPageManager = NoPageManager
    /\ pdfPageManager = NoPageManager
    /\ savedFile = NoFile
    /\ lastExportedPDF = NoFile
    /\ PreprocessIdle
    /\ SettingsLoaded

\* ------------------------------------------------------------------ actions
\* const canvas = await html2canvas(containerEl, {...}): the bitmap shows the
\* markers as they are displayed at that moment
Rasterize ==
    /\ pc = "raster"
    /\ rasterizedWith' = IF markersHidden THEN "hidden" ELSE "visible"
    /\ pc' = "start"
    /\ UNCHANGED <<inputs, segmenter, segments, loopVars, pdfVars, error, markersHidden, containerAttached, managerVars, fileVars, preVars, tabVars>>

\* new PageManager(...) on a margin that leaves no content area: the geometry
\* resolver reports a configuration error, which ends the run
ConfigurationError ==
    /\ pc = "start"
    /\ ~ContentAreaPositive(pageSize, pdfMargin)
    /\ pc' = Throw(pc)
    /\ error' = "ConfigurationError"
    /\ segmenter' = IF UseSmartBreaking(treatHorizontalRuleAsPageBreak, Len(markerPositions))
                    THEN "smart" ELSE "uniform"
    /\ UNCHANGED <<inputs, segments, loopVars, pdfVars, domVars, managerVars, fileVars, preVars, tabVars>>

\* the smart branch: createSmartPageSegments is entered, the markers are hidden
\* (markers.forEach(... style.display = 'none')), cursor and index at 0
UseSmartSegments ==
    /\ pc = "start"
    /\ UseSmartBreaking(treatHorizontalRuleAsPageBreak, Len(markerPositions))
    /\ segmenter' = "smart"
    /\ segments' = <<>>
    /\ currentY' = 0
    /\ markerIndex' = 0
    /\ markersHidden' = TRUE
    /\ pc' = "smart"
    /\ segmentPageManager' = PageManager(canvasWidth, canvasHeight, pageSize, pdfMargin)
    /\ UNCHANGED <<inputs, pdfVars, error, rasterizedWith, containerAttached, pdfPageManager, fileVars, preVars, tabVars>>

\* the regular branch: segments = pageManager.splitContent(canvasHeight)
UseRegularSplit ==
    /\ pc = "start"
    /\ ~UseSmartBreaking(treatHorizontalRuleAsPageBreak, Len(markerPositions))
    /\ segmenter' = "uniform"
    /\ segments' = splitContent(canvasHeight, contentHeight)
    /\ pc' = "pdf"
    /\ segmentPageManager' = PageManager(canvasWidth, canvasHeight, pageSize, pdfMargin)
    /\ UNCHANGED <<inputs, loopVars, pdfVars, error, domVars, pdfPageManager, fileVars, preVars, tabVars>>

\* one iteration of the while loop: the marker is within the page, break at it
BreakAtMarker ==
    /\ pc = "smart"
    /\ currentY < canvasHeight
    /\ HasMarker
    /\ MarkerWithinPage(distanceToMarker, pageHeight)
    /\ LET segmentHeight == MarkerSegmentHeight(nextMarkerPos, currentY)
       IN  IF StopsLoop(segmentHeight)
           THEN /\ pc' = "pdf"
                /\ UNCHANGED <<segments, currentY>>
           ELSE /\ segments' = PushSegment(segments, currentY, segmentHeight)
                /\ currentY' = currentY + segmentHeight
                /\ pc' = pc
    /\ markerIndex' = markerIndex + 1
    /\ UNCHANGED <<inputs, segmenter, pdfVars, error, domVars, managerVars, fileVars, preVars, tabVars>>

\* one iteration: the marker is at or before the cursor, skip it (continue)
SkipMarker ==
    /\ pc = "smart"
    /\ currentY < canvasHeight
    /\ HasMarker
    /\ ~MarkerWithinPage(distanceToMarker, pageHeight)
    /\ MarkerPassed(distanceToMarker)
    /\ markerIndex' = markerIndex + 1
    /\ UNCHANGED <<inputs, pc, segmenter, segments, currentY, pdfVars, error, domVars, managerVars, fileVars, preVars, tabVars>>

\* one iteration: the marker is beyond the page or none is left, use a full page;
\* if (segmentHeight <= 0) break
FullPage ==
    /\ pc = "smart"
    /\ currentY < canvasHeight
    /\ \/ ~HasMarker
       \/ /\ HasMarker
          /\ ~MarkerWithinPage(distanceToMarker, pageHeight)
          /\ ~MarkerPassed(distanceToMarker)
    /\ LET segmentHeight == FullPageHeight(pageHeight, canvasHeight, currentY)
       IN  IF StopsLoop(segmentHeight)
           THEN /\ pc' = "pdf"
                /\ UNCHANGED <<segments, currentY>>
           ELSE /\ segments' = PushSegment(segments, currentY, segmentHeight)
                /\ currentY' = currentY + segmentHeight
                /\ pc' = pc
    /\ UNCHANGED <<inputs, segmenter, markerIndex, pdfVars, error, domVars, managerVars, fileVars, preVars, tabVars>>

\* while (currentY < canvasHeight) is false: return segments
EndSegments ==
    /\ pc = "smart"
    /\ currentY >= canvasHeight
    /\ pc' = "pdf"
    /\ UNCHANGED <<inputs, segmenter, segments, loopVars, pdfVars, error, domVars, managerVars, fileVars, preVars, tabVars>>

\* new jsPDF({...}): the document starts with its first page
CreatePDF ==
    /\ pc = "pdf"
    /\ pdfPages' = 1
    /\ pdfCalls' = <<>>
    /\ pageIndex' = 0
    /\ placements' = <<>>
    /\ LET isLandscape == getIsLandscape(canvasWidth, canvasHeight, pageSize)
       IN  pdfPageList' = <<[orientation |-> OrientationName(isLandscape),
                             format |-> getFormat(pageSize, isLandscape)]>>
    /\ pc' = "pages"
    /\ pdfPageManager' = PageManager(canvasWidth, canvasHeight, pageSize, pdfMargin)
    /\ UNCHANGED <<inputs, segmenter, segments, loopVars, error, domVars, segmentPageManager, fileVars, preVars, tabVars>>

\* one iteration of the page loop: addPage for every segment but the first, then
\* the segment's image
AddSegmentPage ==
    /\ pc = "pages"
    /\ pageIndex < Len(segments)
    /\ LET added == IF NeedsNewPage(pageIndex)
                    THEN Append(pdfCalls, Call("addPage", pageIndex))
                    ELSE pdfCalls
       IN  /\ pdfCalls' = Append(added, Call("addImage", pageIndex))
           /\ pdfPages' = IF NeedsNewPage(pageIndex) THEN pdfPages + 1 ELSE pdfPages
    /\ pdfPageList' =
          IF NeedsNewPage(pageIndex)
          THEN Append(pdfPageList,
                      NewPage(pdfPageList[1], canvasWidth,
                              segments[pageIndex + 1].height, pageSize))
          ELSE pdfPageList
    /\ placements' =
          Append(placements,
                 ComposeSegment(canvasWidth, segments[pageIndex + 1].height,
                     getFormat(pageSize,
                               getIsLandscape(canvasWidth, canvasHeight, pageSize)),
                     pdfMargin))
    /\ pageIndex' = pageIndex + 1
    /\ UNCHANGED <<inputs, pc, segmenter, segments, loopVars, error, domVars, managerVars, fileVars, preVars, tabVars>>

\* the same iteration when getContext('2d') returns null: throw after addPage
SegmentCanvasFails ==
    /\ pc = "pages"
    /\ pageIndex < Len(segments)
    /\ pdfCalls' = IF NeedsNewPage(pageIndex)
                   THEN Append(pdfCalls, Call("addPage", pageIndex))
                   ELSE pdfCalls
    /\ pdfPages' = IF NeedsNewPage(pageIndex) THEN pdfPages + 1 ELSE pdfPages
    /\ pdfPageList' =
          IF NeedsNewPage(pageIndex)
          THEN Append(pdfPageList,
                      NewPage(pdfPageList[1], canvasWidth,
                              segments[pageIndex + 1].height, pageSize))
          ELSE pdfPageList
    /\ pc' = Throw(pc)
    /\ error' = "Could not get 2D context from segment canvas"
    /\ UNCHANGED <<inputs, segmenter, segments, loopVars, pageIndex, placements, domVars, managerVars, fileVars, preVars, tabVars>>

\* return pdf
ReturnPDF ==
    /\ pc = "pages"
    /\ pageIndex >= Len(segments)
    /\ pc' = "done"
    /\ UNCHANGED <<inputs, segmenter, segments, loopVars, pdfVars, error, domVars, managerVars, fileVars, preVars, tabVars>>

\* exportToPDF after createPDFFromHTML returned: the export folder is made if
\* missing, the file is written, lastExportedPDF is set, then containerEl.remove()
SavePDF ==
    /\ pc = "done"
    /\ savedFile' = Output(pdfPages, Len(placements))
    /\ lastExportedPDF' = Output(pdfPages, Len(placements))
    /\ containerAttached' = FALSE
    /\ pc' = "saved"
    /\ UNCHANGED <<inputs, segmenter, segments, loopVars, pdfVars, error, markersHidden,
                   rasterizedWith, managerVars, preVars, tabVars>>

\* mkdir or writeBinary rejects: nothing is written, lastExportedPDF is not set
SaveFails ==
    /\ pc = "done"
    /\ pc' = Throw(pc)
    /\ error' = "write failed"
    /\ UNCHANGED <<inputs, segmenter, segments, loopVars, pdfVars, domVars,
                   managerVars, fileVars, preVars, tabVars>>

\* the page height the page managers resolve under changed settings
ResolveAgain(size, margin) ==
    contentHeight' \in PageHeights(size, margin, canvasHeight)

\* the page size dropdown: this.plugin.settings.pageSize = value, saveSettings()
SetPageSize ==
    /\ SettingsTabCanRun(pc)
    /\ \E value \in PageSizes :
          /\ value # pageSize
          /\ pageSize' = value
          /\ ResolveAgain(value, pdfMargin)
          /\ savedSettings' = Settings(value, pdfMargin, canvasScale,
                                       treatHorizontalRuleAsPageBreak)
    /\ UNCHANGED <<treatHorizontalRuleAsPageBreak, pdfMargin, canvasHeight, canvasWidth,
                   markerPositions, pc, segmenter, segments, loopVars, pdfVars, error,
                   domVars, managerVars, fileVars, preVars, canvasScale>>

\* the margin text field handed the text value: const num = parseInt(value);
\* if (!isNaN(num) && num >= 0) { pdfMargin = num; saveSettings() }
SetPdfMarginTo(value) ==
    LET num == ParseInt(value)
    IN  /\ SettingsTabCanRun(pc)
        /\ IF MarginAccepted(num)
           THEN /\ pdfMargin' = num.value
                /\ IF num.value = pdfMargin
                   THEN UNCHANGED contentHeight
                   ELSE ResolveAgain(pageSize, num.value)
                /\ savedSettings' = Settings(pageSize, num.value, canvasScale,
                                             treatHorizontalRuleAsPageBreak)
           ELSE UNCHANGED <<pdfMargin, contentHeight, savedSettings>>
        /\ UNCHANGED <<treatHorizontalRuleAsPageBreak, pageSize, canvasHeight, canvasWidth,
                       markerPositions, pc, segmenter, segments, loopVars, pdfVars,
                       error, domVars, managerVars, fileVars, preVars, canvasScale>>

\* the margin of another run is typed
SetPdfMargin ==
    /\ SettingsTabCanRun(pc)
    /\ \E value \in {ToText(m) : m \in Margins} : SetPdfMarginTo(value)

\* any of the texts is typed
TypePdfMargin ==
    /\ SettingsTabCanRun(pc)
    /\ \E value \in MarginTexts : SetPdfMarginTo(value)

\* the scale text field handed the text value: const num = parseFloat(value);
\* if (!isNaN(num) && num > 0 && num <= 4) { canvasScale = num; saveSettings() }
SetCanvasScaleTo(value) ==
    LET num == ParseFloat(value)
    IN  /\ SettingsTabCanRun(pc)
        /\ IF ScaleAccepted(num)
           THEN /\ canvasScale' = Frac(num.n, num.d)
                /\ savedSettings' = Settings(pageSize, pdfMargin, Frac(num.n, num.d),
                                             treatHorizontalRuleAsPageBreak)
           ELSE UNCHANGED <<canvasScale, savedSettings>>
        /\ UNCHANGED <<inputs, pc, segmenter, segments, loopVars, pdfVars, error,
                       domVars, managerVars, fileVars, preVars>>

SetCanvasScale ==
    /\ SettingsTabCanRun(pc)
    /\ \E value \in ScaleTexts : SetCanvasScaleTo(value)

\* the toggle: this.plugin.settings.treatHorizontalRuleAsPageBreak = value,
\* saveSettings()
SetTreatHorizontalRule ==
    /\ SettingsTabCanRun(pc)
    /\ treatHorizontalRuleAsPageBreak' = ~treatHorizontalRuleAsPageBreak
    /\ savedSettings' = Settings(pageSize, pdfMargin, canvasScale,
                                 ~treatHorizontalRuleAsPageBreak)
    /\ UNCHANGED <<pdfMargin, pageSize, canvasHeight, canvasWidth, markerPositions,
                   contentHeight, pc, segmenter, segments, loopVars, pdfVars, error,
                   domVars, managerVars, fileVars, preVars, canvasScale>>

Next ==
    \/ SetPageSize
    \/ SetPdfMargin
    \/ SetTreatHorizontalRule
    \/ Rasterize
    \/ ConfigurationError
    \/ UseSmartSegments
    \/ UseRegularSplit
    \/ BreakAtMarker
    \/ SkipMarker
    \/ FullPage
    \/ EndSegments
    \/ CreatePDF
    \/ AddSegmentPage
    \/ SegmentCanvasFails
    \/ ReturnPDF
    \/ SavePDF
    \/ SaveFails

Spec == Init /\ [][Next]_vars

\* the while loop of createSmartPageSegments is synchronous code: once entered,
\* its next iteration is always taken
SegmenterStep == BreakAtMarker \/ SkipMarker \/ FullPage \/ EndSegments

\* createPDFFromHTML has the bitmap and its marker positions and is about to
\* choose a segmenter; the feature is enabled
LiveInit ==
    /\ treatHorizontalRuleAsPageBreak = TRUE
    /\ pdfMargin \in Margins
    /\ pageSize \in PageSizes
    /\ \E inp \in Runs(pageSize, pdfMargin) :
          /\ canvasHeight = inp.total
          /\ contentHeight = inp.page
          /\ markerPositions = inp.markers
    /\ canvasWidth = 1
    /\ pc = "start"
    /\ segmenter = "none"
    /\ segments = <<>>
    /\ currentY = 0
    /\ markerIndex = 0
    /\ pdfPages = 0
    /\ pdfCalls = <<>>
    /\ pageIndex = 0
    /\ placements = <<>>
    /\ pdfPageList = <<>>
    /\ error = "none"
    /\ markersHidden = FALSE
    /\ rasterizedWith = "visible"
    /\ containerAttached = TRUE
    /\ segmentPageManager = NoPageManager
    /\ pdfPageManager = NoPageManager
    /\ savedFile = NoFile
    /\ lastExportedPDF = NoFile
    /\ PreprocessIdle
    /\ SettingsLoaded

\* createSmartPageSegments(canvasWidth, canvasHeight, markerPositions, markers)
\* called on its own, whatever the marker list
CallSmartSegments ==
    /\ pc = "start"
    /\ segmenter' = "smart"
    /\ segments' = <<>>
    /\ currentY' = 0
    /\ markerIndex' = 0
    /\ markersHidden' = TRUE
    /\ segmentPageManager' = PageManager(canvasWidth, canvasHeight, pageSize, pdfMargin)
    /\ pc' = "smart"
    /\ UNCHANGED <<inputs, pdfVars, error, rasterizedWith, containerAttached,
                   pdfPageManager, fileVars, preVars, tabVars>>

\* createSmartPageSegments alone, from its call to its return
LiveNext == CallSmartSegments \/ SegmenterStep

LiveSpec == LiveInit /\ [][LiveNext]_vars /\ WF_vars(SegmenterStep)

\* ------------------------------------------------------------------ preprocessing run
MaxLines == 4

\* the export has not begun: no canvas, no segments, no document
ExportIdle ==
    /\ pdfMargin = DefaultMargin
    /\ pageSize = "a4"
    /\ canvasHeight = 0
    /\ canvasWidth = 1
    /\ markerPositions = <<>>
    /\ contentHeight = 1
    /\ pc = "raster"
    /\ segmenter = "none"
    /\ segments = <<>>
    /\ currentY = 0
    /\ markerIndex = 0
    /\ pdfPages = 0
    /\ pdfCalls = <<>>
    /\ pageIndex = 0
    /\ placements = <<>>
    /\ pdfPageList = <<>>
    /\ error = "none"
    /\ markersHidden = FALSE
    /\ rasterizedWith = "none"
    /\ containerAttached = FALSE
    /\ segmentPageManager = NoPageManager
    /\ pdfPageManager = NoPageManager
    /\ savedFile = NoFile
    /\ lastExportedPDF = NoFile

\* preprocessMarkdownForPageBreaks(content) is called on a note
PreInit ==
    /\ treatHorizontalRuleAsPageBreak \in BOOLEAN
    /\ ExportIdle
    /\ SettingsLoaded
    /\ lines \in SeqsUpTo(MaxLines, NoteLines)
    /\ lineIndex = 0
    /\ inCodeBlock = FALSE
    /\ inQuoteBlock = FALSE
    /\ processedLines = <<>>
    /\ prePc = "call"

\* if (!this.settings.treatHorizontalRuleAsPageBreak) return content
FeatureDisabled ==
    /\ prePc = "call"
    /\ ~treatHorizontalRuleAsPageBreak
    /\ processedLines' = lines
    /\ prePc' = "returned"
    /\ UNCHANGED <<exportVars, lines, lineIndex, inCodeBlock, inQuoteBlock>>

\* const lines = content.split('\n'), the flags false, i = 0
StartScan ==
    /\ prePc = "call"
    /\ treatHorizontalRuleAsPageBreak
    /\ lineIndex' = 0
    /\ inCodeBlock' = FALSE
    /\ inQuoteBlock' = FALSE
    /\ processedLines' = <<>>
    /\ prePc' = "scan"
    /\ UNCHANGED <<exportVars, lines>>

\* a fence line: toggle inCodeBlock, push the line, continue
FenceLine ==
    /\ prePc = "scan"
    /\ lineIndex < Len(lines)
    /\ StartsWith(Trim(lines[lineIndex + 1]), Fence)
    /\ inCodeBlock' = ~inCodeBlock
    /\ processedLines' = Append(processedLines, lines[lineIndex + 1])
    /\ lineIndex' = lineIndex + 1
    /\ UNCHANGED <<exportVars, lines, inQuoteBlock, prePc>>

\* any other line: track the quote block, then replace the line or push it
ScanLine ==
    /\ prePc = "scan"
    /\ lineIndex < Len(lines)
    /\ LET line == lines[lineIndex + 1]
           trimmed == Trim(line)
           isLast == lineIndex + 1 = Len(lines)
           nextTrimmed == IF isLast THEN <<>> ELSE Trim(lines[lineIndex + 2])
           inQuote == QuoteBlockAfter(inQuoteBlock, trimmed, isLast, nextTrimmed)
       IN  /\ ~StartsWith(trimmed, Fence)
           /\ inQuoteBlock' = inQuote
           /\ processedLines' =
                 Append(processedLines,
                        IF IsPageBreakLine(inCodeBlock, inQuote, trimmed)
                        THEN PageBreakMarker
                        ELSE line)
    /\ lineIndex' = lineIndex + 1
    /\ UNCHANGED <<exportVars, lines, inCodeBlock, prePc>>

\* return processedLines.join('\n')
ReturnProcessed ==
    /\ prePc = "scan"
    /\ lineIndex >= Len(lines)
    /\ prePc' = "returned"
    /\ UNCHANGED <<exportVars, lines, lineIndex, inCodeBlock, inQuoteBlock,
                   processedLines>>

PreNext ==
    \/ FeatureDisabled
    \/ StartScan
    \/ FenceLine
    \/ ScanLine
    \/ ReturnProcessed

PreSpec == PreInit /\ [][PreNext]_vars

\* ------------------------------------------------------------------ settings tab run
\* the plugin was loaded without saved data: DEFAULT_SETTINGS, and no export runs
SettingsInit ==
    /\ treatHorizontalRuleAsPageBreak = FALSE
    /\ ExportIdle
    /\ PreprocessIdle
    /\ canvasScale = DefaultScale
    /\ savedSettings = NoData

SettingsNext ==
    \/ SetPageSize
    \/ TypePdfMargin
    \/ SetCanvasScale
    \/ SetTreatHorizontalRule

SettingsSpec == SettingsInit /\ [][SettingsNext]_vars

\* ------------------------------------------------------------------ properties
\* the segment list is final: the segmenter has returned
Segmented ==
    \/ pc \in {"pdf", "pages", "done", "saved"}
    \/ pc = "failed" /\ error # "ConfigurationError"

SmartRun == Segmented /\ segmenter = "smart"

Covers(segs, total) ==
    /\ Len(segs) > 0
    /\ segs[1].y = 0
    /\ \A k \in 1..(Len(segs) - 1) : segs[k + 1].y = segs[k].y + segs[k].height
    /\ segs[Len(segs)].y + segs[Len(segs)].height = total

Ascending(ms) == \A k \in 1..(Len(ms) - 1) : ms[k] <= ms[k + 1]

Example(ms) ==
    /\ canvasHeight = 1000
    /\ contentHeight = 300
    /\ markerPositions = ms

\* C1: for every canvas height > 0, page content height > 0 and marker list, the
\* segments a segmenter returns start at 0, are contiguous and end exactly at the
\* canvas height.
C1_SegmentsCoverCanvas ==
    (Segmented /\ canvasHeight > 0 /\ contentHeight > 0)
        => Covers(segments, canvasHeight)

\* the same with every marker at or before the end of the canvas
C1_CoverWithMarkersInside ==
    (/\ Segmented /\ canvasHeight > 0 /\ contentHeight > 0
     /\ \A k \in 1..Len(markerPositions) : markerPositions[k] <= canvasHeight)
        => Covers(segments, canvasHeight)

\* C2: in the marker-aware segmenter, with ascending markers that all lie strictly
\* between 0 and the canvas height, every marker position is the y of a segment.
C2_MarkersBecomeBoundaries ==
    (/\ SmartRun
     /\ contentHeight > 0
     /\ Ascending(markerPositions)
     /\ \A k \in 1..Len(markerPositions) :
            0 < markerPositions[k] /\ markerPositions[k] < canvasHeight)
        => \A k \in 1..Len(markerPositions) :
               \E j \in 1..Len(segments) : segments[j].y = markerPositions[k]

\* a far marker followed by a marker closer than one page
C2_Witness ==
    /\ pc = "done"
    /\ segmenter = "smart"
    /\ Len(markerPositions) = 2
    /\ contentHeight < markerPositions[1]
    /\ markerPositions[1] < markerPositions[2]
    /\ markerPositions[2] - markerPositions[1] < contentHeight
    /\ markerPositions[2] < canvasHeight
    /\ Len(segments) >= 4

\* C3: every segment of either segmenter has 0 < height <= page content height.
C3_SegmentHeightWithinPage ==
    \A k \in 1..Len(segments) :
        0 < segments[k].height /\ segments[k].height <= contentHeight

\* a marker-aware run with a full page and a page cut short by a marker
C3_Witness ==
    /\ pc = "done"
    /\ segmenter = "smart"
    /\ \E k \in 1..Len(segments) : segments[k].height = contentHeight
    /\ \E k \in 1..Len(segments) :
          /\ segments[k].height < contentHeight
          /\ \E m \in 1..Len(markerPositions) :
                 segments[k].y + segments[k].height = markerPositions[m]

\* C4 as stated: with the single marker inside the final short page of the uniform
\* split, segmentWithMarkers(1000, 300, [950]) yields heights [300, 300, 300, 100].
C4_Original ==
    (SmartRun /\ Example(<<950>>)) => Heights(segments) = <<300, 300, 300, 100>>

LastPageStart == ((canvasHeight - 1) \div contentHeight) * contentHeight

\* C4 amended: with a single marker strictly inside the final page of the uniform
\* split, the pages before it are full pages and the final page is split in two at
\* the marker; segmentWithMarkers(1000, 300, [950]) yields [300, 300, 300, 50, 50].
C4_MarkerSplitsLastPage ==
    /\ (SmartRun /\ Example(<<950>>)) => Heights(segments) = <<300, 300, 300, 50, 50>>
    /\ (/\ SmartRun
        /\ contentHeight > 0
        /\ canvasHeight > 0
        /\ Len(markerPositions) = 1
        /\ LastPageStart < markerPositions[1]
        /\ markerPositions[1] < canvasHeight)
           => LET n == Len(segments)
                  full == LastPageStart \div contentHeight
              IN  /\ n = full + 2
                  /\ \A k \in 1..full :
                         segments[k].y = (k - 1) * contentHeight
                         /\ segments[k].height = contentHeight
                  /\ segments[n - 1].y = LastPageStart
                  /\ segments[n - 1].height = markerPositions[1] - LastPageStart
                  /\ segments[n].y = markerPositions[1]
                  /\ segments[n].height = canvasHeight - markerPositions[1]

C4_Witness ==
    /\ pc = "done"
    /\ segmenter = "smart"
    /\ Example(<<950>>)
    /\ Len(segments) = 5

BreakCase ==
    /\ pc = "smart"
    /\ currentY < canvasHeight
    /\ markerIndex < Len(markerPositions)
    /\ 0 < markerPositions[markerIndex + 1] - currentY
    /\ markerPositions[markerIndex + 1] - currentY < contentHeight

\* C5: whenever the next marker is at distance d from the cursor, 0 < d < page
\* height, the step emits a segment of height d, the cursor lands on the marker and
\* the marker index advances by one; markers [250] give a first segment of 250 and
\* markers [500] give heights [300, 200, 300, 200].
C5_BreakAtMarkerStep ==
    /\ [][BreakCase =>
            /\ segments' = Append(segments,
                   [y |-> currentY,
                    height |-> markerPositions[markerIndex + 1] - currentY,
                    pageNumber |-> Len(segments)])
            /\ currentY' = markerPositions[markerIndex + 1]
            /\ markerIndex' = markerIndex + 1]_vars
    /\ []((SmartRun /\ Example(<<250>>)) => segments[1].height = 250)
    /\ []((SmartRun /\ Example(<<500>>)) => Heights(segments) = <<300, 200, 300, 200>>)

C5_Witness ==
    /\ pc = "done"
    /\ segmenter = "smart"
    /\ Example(<<500>>)
    /\ Len(segments) = 4
    /\ segments[2].y + segments[2].height = 500

CeilDiv(a, b) == (a + b - 1) \div b

\* C6: the uniform segmenter returns ceil(total / page) segments, each of the page
\* content height except the last, which takes what remains; segmentUniform(1000,
\* 300) yields [300, 300, 300, 100].
C6_UniformSegments ==
    (Segmented /\ segmenter = "uniform" /\ contentHeight > 0)
        => LET n == Len(segments)
           IN  /\ n = CeilDiv(canvasHeight, contentHeight)
               /\ \A k \in 1..(n - 1) : segments[k].height = contentHeight
               /\ n > 0 => segments[n].height = canvasHeight - (n - 1) * contentHeight
               /\ (canvasHeight = 1000 /\ contentHeight = 300)
                      => Heights(segments) = <<300, 300, 300, 100>>

C6_Witness ==
    /\ pc = "done"
    /\ segmenter = "uniform"
    /\ canvasHeight = 1000
    /\ contentHeight = 300
    /\ Heights(segments) = <<300, 300, 300, 100>>

ImageOf(i) ==
    [op |-> "addImage", page |-> i, y |-> segments[i + 1].y,
     height |-> segments[i + 1].height]

NewPageOf(i) ==
    [op |-> "addPage", page |-> i, y |-> segments[i + 1].y,
     height |-> segments[i + 1].height]

\* the calls a run of n segments makes: image 0, then new page and image of 1, ...
ExpectedCalls(n) ==
    [k \in 1..(IF n = 0 THEN 0 ELSE 2 * n - 1) |->
        IF k % 2 = 1 THEN ImageOf(k \div 2) ELSE NewPageOf(k \div 2)]

\* C7: the page-writer receives the segments in emission order, one image per
\* segment, and a new-page request immediately before the image of every segment
\* but the first: n images and n - 1 new-page requests.
C7_PageWriterOrder ==
    [](/\ pc \in {"pages", "done"} =>
             /\ Len(pdfCalls) <= Len(ExpectedCalls(Len(segments)))
             /\ pdfCalls = SubSeq(ExpectedCalls(Len(segments)), 1, Len(pdfCalls))
       /\ pc = "done" =>
             /\ pdfCalls = ExpectedCalls(Len(segments))
             /\ Cardinality({k \in 1..Len(pdfCalls) : pdfCalls[k].op = "addImage"})
                   = Len(segments)
             /\ Len(segments) > 0 =>
                   Cardinality({k \in 1..Len(pdfCalls) : pdfCalls[k].op = "addPage"})
                      = Len(segments) - 1)

C7_Witness ==
    /\ pc = "done"
    /\ Len(segments) = 3
    /\ Len(pdfCalls) = 5

\* C8: the marker-aware segmenter is used if and only if the page-break setting is
\* on and at least one marker was found, otherwise the uniform one; the choice is
\* made once per run.
C8_SegmenterChoice ==
    /\ [](segmenter # "none" =>
            (segmenter = "smart" <=>
                (treatHorizontalRuleAsPageBreak /\ Len(markerPositions) > 0)))
    /\ [](segmenter # "none" => segmenter \in {"smart", "uniform"})
    /\ [](pc \notin {"raster", "start"} => segmenter # "none")
    /\ [][segmenter # "none" => segmenter' = segmenter]_vars

\* markers in the rendered note, but the setting is off
C8_Witness ==
    /\ pc = "done"
    /\ segmenter = "uniform"
    /\ ~treatHorizontalRuleAsPageBreak
    /\ Len(markerPositions) > 0
    /\ Len(segments) > 1

\* C9: with a canvas of height zero the run raises no error and produces zero
\* pages: the segment list is empty and the document handed on has no page.
C9_ZeroHeightNoPages ==
    (canvasHeight = 0 /\ pc = "done")
        => /\ error = "none"
           /\ segments = <<>>
           /\ pdfCalls = <<>>
           /\ pdfPages = 0

C11_MarkersHiddenBeforeRaster ==
    (segmenter = "smart" /\ rasterizedWith # "none") => rasterizedWith = "hidden"

\* the page format of the run, in the orientation chosen for the canvas
RunFormat == getFormat(pageSize, getIsLandscape(canvasWidth, canvasHeight, pageSize))
AreaWidthMM == RunFormat.width - 2 * pdfMargin
AreaHeightMM == RunFormat.height - 2 * pdfMargin

\* C12: for every segment the compositor picks exactly one fit: with ar = canvas
\* width / segment height, if contentAreaHeightMM * ar <= contentAreaWidthMM the
\* image height is contentAreaHeightMM (and its width contentAreaHeightMM * ar),
\* otherwise its width is contentAreaWidthMM and its height contentAreaWidthMM / ar.
C12_ExactlyOneFit ==
    [](\A k \in 1..Len(placements) :
           LET h == segments[k].height
               p == placements[k]
           IN  IF AreaHeightMM * canvasWidth <= AreaWidthMM * h
               THEN /\ p.height.n = AreaHeightMM * p.height.d
                    /\ p.width.n * h = AreaHeightMM * canvasWidth * p.width.d
               ELSE /\ p.width.n = AreaWidthMM * p.width.d
                    /\ p.height.n * canvasWidth = AreaWidthMM * h * p.height.d)

\* a run on a positive content area with a page fitted by height and one by width
C12_Witness ==
    /\ pc = "done"
    /\ AreaWidthMM > 0
    /\ \E k \in 1..Len(placements) :
           AreaHeightMM * canvasWidth < AreaWidthMM * segments[k].height
    /\ \E k \in 1..Len(placements) :
           AreaHeightMM * canvasWidth > AreaWidthMM * segments[k].height

\* C13: for every placement, x + width / 2 equals margin + contentAreaWidthMM / 2
\* (both sides multiplied by 2 * x.d * 2 * width.d).
C13_CentredHorizontally ==
    [](\A k \in 1..Len(placements) :
           LET x == placements[k].x
               w == placements[k].width
           IN  2 * (x.n * 2 * w.d + w.n * x.d)
                   = (2 * pdfMargin + AreaWidthMM) * (x.d * 2 * w.d))

\* an image fitted by height that is narrower than the content area
C13_Witness ==
    /\ pc = "done"
    /\ \E k \in 1..Len(placements) :
           /\ AreaHeightMM * canvasWidth < AreaWidthMM * segments[k].height
           /\ placements[k].x.n > pdfMargin * placements[k].x.d

\* the full bitmap's aspect ratio is strictly closer to the landscape ratio of the
\* named size than to its portrait ratio (differences multiplied by h * fw * fh)
BitmapLandscape ==
    LET fw == Formats[pageSize].width
        fh == Formats[pageSize].height
        d1 == canvasWidth * fw * fh - fh * fh * canvasHeight
        d2 == canvasWidth * fw * fh - fw * fw * canvasHeight
    IN  /\ canvasHeight > 0
        /\ (IF d1 < 0 THEN -d1 ELSE d1) < (IF d2 < 0 THEN -d2 ELSE d2)

\* C14: orientation is decided once, before any page is emitted, from the full
\* bitmap's width and height; no page call precedes the document's creation, and
\* every page of the document has that orientation and the same format.
C14_OneOrientationPerRun ==
    [](/\ pdfPageList = <<>> => (pdfCalls = <<>> /\ placements = <<>>)
       /\ \A k \in 1..Len(pdfPageList) :
             /\ pdfPageList[k].orientation
                   = (IF BitmapLandscape THEN "landscape" ELSE "portrait")
             /\ pdfPageList[k].format
                   = (IF BitmapLandscape
                      THEN [width |-> Formats[pageSize].height,
                            height |-> Formats[pageSize].width]
                      ELSE Formats[pageSize]))

\* a finished portrait document of several pages, one of whose segments would by
\* itself be closer to landscape
C14_Witness ==
    /\ pc = "done"
    /\ Len(pdfPageList) >= 2
    /\ ~BitmapLandscape
    /\ \E k \in 2..Len(segments) :
           getIsLandscape(canvasWidth, segments[k].height, pageSize)

C16_NoPartialResult ==
    [][/\ pdfPageList # <<>> => segments' = segments
       /\ error' # "none" => (savedFile' = [pages |-> 0, images |-> 0]
                               /\ lastExportedPDF' = [pages |-> 0, images |-> 0])
       /\ savedFile' # [pages |-> 0, images |-> 0]
             => (pc' = "saved" /\ savedFile'.images = Len(segments'))]_vars

\* a run that failed while emitting a page after the first: the document already
\* holds pages and images, nothing is written
C16_Witness ==
    /\ pc = "failed"
    /\ error = "Could not get 2D context from segment canvas"
    /\ pageIndex > 0
    /\ pdfPages >= 2
    /\ Len(placements) >= 1
    /\ savedFile = NoFile

\* C17: when the marker list is not ascending, the segments the marker-aware
\* segmenter returns still start at 0, are contiguous and end at the canvas height.
C17_NonAscendingStillCovers ==
    (/\ SmartRun
     /\ ~Ascending(markerPositions)
     /\ canvasHeight > 0
     /\ contentHeight > 0)
        => Covers(segments, canvasHeight)

\* C18: in every segment list, the pageNumber of the i-th emitted segment is i,
\* counted from zero, also when markers were skipped between emissions.
C18_PageNumberIsIndex ==
    \A k \in 1..Len(segments) : segments[k].pageNumber = k - 1

\* a marker-aware run that broke at a marker, skipped its duplicate and went on
C18_Witness ==
    /\ pc = "done"
    /\ segmenter = "smart"
    /\ Len(markerPositions) = 2
    /\ markerPositions[1] = markerPositions[2]
    /\ 0 < markerPositions[1]
    /\ markerPositions[1] < contentHeight
    /\ markerPositions[1] < canvasHeight
    /\ markerIndex = 2
    /\ Len(segments) >= 2
    /\ segments[2].y = markerPositions[1]

\* C20: in the marker-aware segmenter, a step taken when the next unconsumed
\* marker is at or before the cursor emits no segment and leaves the cursor and
\* the segment list unchanged; only the marker index advances, by one.
C20_SkipOnlyAdvancesIndex ==
    [][(/\ pc = "smart"
        /\ currentY < canvasHeight
        /\ markerIndex < Len(markerPositions)
        /\ markerPositions[markerIndex + 1] - currentY <= 0)
          => /\ segments' = segments
             /\ currentY' = currentY
             /\ markerIndex' = markerIndex + 1
             /\ pc' = pc]_vars

\* the duplicate of the marker just used has been skipped
C20_Witness ==
    /\ pc = "smart"
    /\ Len(markerPositions) = 2
    /\ markerPositions[1] = markerPositions[2]
    /\ markerPositions[1] > 0
    /\ currentY = markerPositions[1]
    /\ currentY < canvasHeight
    /\ Len(segments) = 1
    /\ markerIndex = 2

C21_FullPageKeepsMarkerPending ==
    [][(/\ pc = "smart"
        /\ currentY < canvasHeight
        /\ contentHeight > 0
        /\ IF markerIndex < Len(markerPositions)
           THEN markerPositions[markerIndex + 1] - currentY >= contentHeight
           ELSE TRUE)
          => LET h == IF contentHeight < canvasHeight - currentY
                      THEN contentHeight
                      ELSE canvasHeight - currentY
             IN  /\ segments' = Append(segments, [y |-> currentY, height |-> h,
                                                  pageNumber |-> Len(segments)])
                 /\ currentY' = currentY + h
                 /\ markerIndex' = markerIndex]_vars

\* a full page was emitted while the first marker, a page or more away, is pending
C21_Witness ==
    /\ pc = "smart"
    /\ Len(markerPositions) >= 1
    /\ markerIndex = 0
    /\ Len(segments) = 1
    /\ currentY = contentHeight
    /\ markerPositions[1] > contentHeight
    /\ currentY < canvasHeight

\* what is left for the loop to do: the markers not yet consumed and the pixels
\* between the cursor and the end of the canvas
LoopMeasure ==
    (Len(markerPositions) - markerIndex)
        + (IF currentY < canvasHeight THEN canvasHeight - currentY ELSE 0)

\* C22: the marker-aware segmentation loop terminates for every canvas height,
\* every page height (zero and negative included) and every marker list: each
\* iteration consumes a marker, or advances the cursor by a positive amount, or
\* stops, so what is left to do strictly decreases; no segment of height <= 0 is
\* ever emitted; and the loop, once entered, is eventually left.
C22_LoopTerminates ==
    /\ [][pc = "smart" =>
            /\ \/ pc' # "smart"
               \/ markerIndex' = markerIndex + 1
               \/ currentY' > currentY
            /\ pc' = "smart" => LoopMeasure' < LoopMeasure
            /\ \A k \in 1..Len(segments') : segments'[k].height > 0]_vars
    /\ [](pc = "smart" => (markerIndex >= 0 /\ markerIndex <= Len(markerPositions)))
    /\ (pc = "smart") ~> (pc # "smart")

\* the loop was left by its break on a page height that is not positive
C22_Witness ==
    /\ pc = "pdf"
    /\ segmenter = "smart"
    /\ contentHeight <= 0
    /\ canvasHeight > 0
    /\ currentY < canvasHeight
    /\ markerIndex >= 1

\* C23: when the printable rectangle is not empty, every placement lies inside
\* it: x >= margin, x + width <= margin + contentAreaWidthMM, y = margin and
\* y + height <= margin + contentAreaHeightMM.
C23_PlacementInsidePrintableArea ==
    []((AreaWidthMM > 0 /\ AreaHeightMM > 0) =>
           \A k \in 1..Len(placements) :
               LET x == placements[k].x
                   y == placements[k].y
                   w == placements[k].width
                   h == placements[k].height
               IN  /\ x.n >= pdfMargin * x.d
                   /\ x.n * w.d + w.n * x.d <= (pdfMargin + AreaWidthMM) * (x.d * w.d)
                   /\ y.n = pdfMargin * y.d
                   /\ y.n * h.d + h.n * y.d <= (pdfMargin + AreaHeightMM) * (y.d * h.d))

\* a finished document with an image that fills the content area's width and is
\* lower than it, and an image that fills its height and is narrower
C23_Witness ==
    /\ pc = "saved"
    /\ AreaWidthMM > 0
    /\ AreaHeightMM > 0
    /\ \E k \in 1..Len(placements) :
           /\ placements[k].width.n = AreaWidthMM * placements[k].width.d
           /\ placements[k].height.n < AreaHeightMM * placements[k].height.d
    /\ \E k \in 1..Len(placements) :
           /\ placements[k].height.n = AreaHeightMM * placements[k].height.d
           /\ placements[k].width.n < AreaWidthMM * placements[k].width.d

\* line k of the note is a fence line
IsFenceLine(k) == StartsWith(Trim(lines[k]), <<Backtick, Backtick, Backtick>>)

\* the number of fence lines before line k
FencesBefore(k) == Cardinality({j \in 1..(k - 1) : IsFenceLine(j)})

\* C24: in the output of the preprocessing, a --- line that lies after an opening
\* fence line and before its closing fence line (or after an unclosed opening
\* fence) is the line itself, not the page-break marker, and every fence line is
\* copied unchanged.
C24_NoBreakInsideFence ==
    (prePc = "returned" /\ treatHorizontalRuleAsPageBreak) =>
        /\ Len(processedLines) = Len(lines)
        /\ \A k \in 1..Len(lines) :
              /\ IsFenceLine(k) => processedLines[k] = lines[k]
              /\ FencesBefore(k) % 2 = 1 => processedLines[k] = lines[k]

\* a --- line kept between two fence lines, and one replaced after the closing fence
C24_Witness ==
    /\ prePc = "returned"
    /\ treatHorizontalRuleAsPageBreak
    /\ Len(lines) = 4
    /\ IsFenceLine(1)
    /\ Trim(lines[2]) = Dashes
    /\ IsFenceLine(3)
    /\ Trim(lines[4]) = Dashes
    /\ processedLines[2] = lines[2]
    /\ processedLines[4] = PageBreakMarker

\* C25: when exportToPDF has finished, by success or by a failure after the
\* render container was created, the container is no longer attached to the
\* document.
C25_ContainerRemoved ==
    pc \in {"saved", "failed"} => ~containerAttached

\* C26: called with an empty marker list, a canvas height > 0 and a page height
\* > 0, the marker-aware segmenter returns the segments of the uniform segmenter:
\* full pages at multiples of the page height, the last one clamped.
C26_NoMarkersIsUniform ==
    (/\ pc = "pdf"
     /\ segmenter = "smart"
     /\ markerPositions = <<>>
     /\ canvasHeight > 0
     /\ contentHeight > 0)
        => /\ segments = splitContent(canvasHeight, contentHeight)
           /\ \A k \in 1..Len(segments) :
                 /\ segments[k].y = (k - 1) * contentHeight
                 /\ segments[k].height =
                       (IF canvasHeight - (k - 1) * contentHeight < contentHeight
                        THEN canvasHeight - (k - 1) * contentHeight
                        ELSE contentHeight)
           /\ (Len(segments) - 1) * contentHeight < canvasHeight
           /\ canvasHeight <= Len(segments) * contentHeight

\* the marker-aware segmenter returned several pages, the last one clamped, for
\* an empty marker list
C26_Witness ==
    /\ pc = "pdf"
    /\ segmenter = "smart"
    /\ markerPositions = <<>>
    /\ contentHeight > 0
    /\ Len(segments) >= 2
    /\ segments[Len(segments)].height < contentHeight

\* C27: the marker-aware segmenter introduces no break of its own: the end
\* y + height of every segment it emits is the position of a marker of the list,
\* or y + page height, or the canvas height.
C27_NoBreakOfItsOwn ==
    segmenter = "smart" =>
        \A k \in 1..Len(segments) :
            LET end == segments[k].y + segments[k].height
            IN  \/ \E m \in 1..Len(markerPositions) : markerPositions[m] = end
                \/ end = segments[k].y + contentHeight
                \/ end = canvasHeight

\* a run with a segment that ends at a marker only, one that ends a full page
\* only, and a last one that ends at the canvas height only
C27_Witness ==
    /\ pc = "done"
    /\ segmenter = "smart"
    /\ \E k \in 1..Len(segments) :
          /\ segments[k].height < contentHeight
          /\ segments[k].y + segments[k].height < canvasHeight
    /\ \E k \in 1..Len(segments) :
          /\ segments[k].height = contentHeight
          /\ segments[k].y + segments[k].height < canvasHeight
          /\ \A m \in 1..Len(markerPositions) :
                markerPositions[m] # segments[k].y + segments[k].height
    /\ segments[Len(segments)].height < contentHeight
    /\ segments[Len(segments)].y + segments[Len(segments)].height = canvasHeight
    /\ \A m \in 1..Len(markerPositions) : markerPositions[m] # canvasHeight

\* C28: within one run every page is drawn at the same scale: any two placements
\* have the same width in mm, and their heights in mm are in the proportion of
\* their segments' heights in pixels.
C28_SameScaleOnEveryPage ==
    \A j, k \in 1..Len(placements) :
        /\ placements[j].width.n * placements[k].width.d
              = placements[k].width.n * placements[j].width.d
        /\ placements[j].height.n * placements[k].height.d * segments[k].height
              = placements[k].height.n * placements[j].height.d * segments[j].height

\* the same on the landscape page of the short a4 note
C28_LandscapeNoteSameScale ==
    (/\ pc = "done"
     /\ pageSize = "a4"
     /\ pdfMargin = DefaultMargin
     /\ canvasWidth = 80
     /\ canvasHeight = 70
     /\ contentHeight = 80
     /\ markerPositions = <<60>>
     /\ segmenter = "smart"
     /\ Len(placements) = 2
     /\ BitmapLandscape)
        => placements[1].width.n * placements[2].width.d
              = placements[2].width.n * placements[1].width.d

\* C29: starting from the default settings, after any sequence of edits in the
\* settings tab the margin is an integer >= 0 and the scale lies in (0, 4]; an
\* edit whose text is refused (no number, a negative margin, a scale of 0 or
\* less, a scale above 4) changes no setting and saves nothing.
C29_SettingsStayValid ==
    /\ [](/\ pdfMargin \in Nat
          /\ canvasScale.n > 0
          /\ canvasScale.n <= 4 * canvasScale.d)
    /\ [][/\ \A value \in {<<"-", "5">>, <<"a", "b", "c">>, <<>>} :
                SetPdfMarginTo(value) =>
                    UNCHANGED <<treatHorizontalRuleAsPageBreak, pdfMargin, pageSize,
                                canvasScale, savedSettings>>
          /\ \A value \in {<<"0">>, <<"4", ".", "5">>, <<"-", "1">>,
                           <<"a", "b", "c">>, <<>>} :
                SetCanvasScaleTo(value) =>
                    UNCHANGED <<treatHorizontalRuleAsPageBreak, pdfMargin, pageSize,
                                canvasScale, savedSettings>>]_vars

\* the smallest margin and the largest scale were typed, kept and saved
C29_Witness ==
    /\ pdfMargin = 0
    /\ canvasScale = Frac(4, 1)
    /\ savedSettings = Settings(pageSize, 0, Frac(4, 1), treatHorizontalRuleAsPageBreak)

====
